---- MODULE Spec2Model ----
(***************************************************************************)
(* Model of the SpaceComm ground-station link layer                        *)
(* (src/satellite_comm.py, class SatelliteComm).                           *)
(*                                                                         *)
(* The connection object (sock, connected, lock, the two packet counters)  *)
(* is shared by the callers; every caller is a thread whose position in    *)
(* the method it executes is thr[t].pc.  One step is one access to the     *)
(* shared object (a socket call, a read or a write of a field, a lock      *)
(* operation) together with the thread-local computation that follows it.  *)
(***************************************************************************)
EXTENDS Integers, Sequences, FiniteSets, TLC

\* ------------------------------------------------------------ constants
PRIMARY_HEADER_SIZE == 6
MAX_PACKET_SIZE == 1024
RETRY_LIMIT == 5
APID_COMMAND == 256
UNKNOWN_COMMAND == 255
SENTINEL == 255

\* ------------------------------------------------------------ bounds
NumCallers == 2
MaxCalls == 2
MaxCallsSingle == 2
MaxFaults == 1
MaxFaultsSingle == 5
MaxPayload == 2
MaxFrames == 3

VARIABLES
    use_udp,            \* self.use_udp
    sock,               \* state of the object self.sock refers to
    connected,          \* self.connected
    lock,               \* holder of self.lock, NoOne when free
    packets_sent,       \* self.packets_sent
    packets_received,   \* self.packets_received
    thr,                \* per thread: position ("off": not a caller) and local variables
    peer,               \* the packets the remote end may deliver
    calls,              \* top-level calls the callers may still start
    faults,             \* network failures the environment may still inject
    frames_left,        \* frames the remote end may still deliver
    okSends,            \* history: send_packet calls that returned True
    okRecvs,            \* history: receive_packet calls that returned data
    fpc,                \* codec and parser runs: the stage reached
    fin,                \* codec and parser runs: the arguments
    fout                \* codec and parser runs: the values returned

vars == <<use_udp, sock, connected, lock, packets_sent, packets_received,
          thr, peer, calls, faults, frames_left, okSends, okRecvs,
          fpc, fin, fout>>

NoOne == 0

\* The threads that may call into the connection.
Threads == 1..NumCallers

\* ------------------------------------------------------------ FrameCodec
\* struct.pack('>H', x): two bytes, most significant first; struct.error
\* (ok = FALSE) when x is outside 0..65535.
PackH(x) ==
    IF x \in 0..65535
    THEN [ok |-> TRUE, bytes |-> <<x \div 256, x % 256>>]
    ELSE [ok |-> FALSE, bytes |-> <<>>]

\* UnpackH with the two bytes taken in the other order.
UnpackH_le(hi, lo) == lo * 256 + hi

\* struct.unpack('>H', <<hi, lo>>)
UnpackH(hi, lo) == hi * 256 + lo

\* struct.pack('>HHH', a, b, c)
PackHHH(a, b, c) ==
    IF PackH(a).ok /\ PackH(b).ok /\ PackH(c).ok
    THEN [ok |-> TRUE, bytes |-> PackH(a).bytes \o PackH(b).bytes \o PackH(c).bytes]
    ELSE [ok |-> FALSE, bytes |-> <<>>]

\* build_space_packet with the length field counting the whole header.
build_space_packet_len6(apid, seq, payload) ==
    LET length == Len(payload) + PRIMARY_HEADER_SIZE
        header == PackHHH(apid, seq, length)
    IN  IF header.ok
        THEN [ok |-> TRUE, bytes |-> header.bytes \o payload]
        ELSE [ok |-> FALSE, bytes |-> <<>>]

\* build_space_packet that refuses a payload longer than MAX_PACKET_SIZE.
build_space_packet_capped(apid, seq, payload) ==
    LET length == Len(payload) + PRIMARY_HEADER_SIZE - 1
        header == PackHHH(apid, seq, length)
    IN  IF header.ok /\ Len(payload) <= MAX_PACKET_SIZE
        THEN [ok |-> TRUE, bytes |-> header.bytes \o payload]
        ELSE [ok |-> FALSE, bytes |-> <<>>]

\* build_space_packet: header ++ payload, length = len(payload) + 6 - 1.
\* ok = FALSE stands for the struct.error raised by struct.pack.
build_space_packet(apid, seq, payload) ==
    LET length == Len(payload) + PRIMARY_HEADER_SIZE - 1
        header == PackHHH(apid, seq, length)
    IN  IF header.ok
        THEN [ok |-> TRUE, bytes |-> header.bytes \o payload]
        ELSE [ok |-> FALSE, bytes |-> <<>>]

\* parse_space_packet that rejects a length field that does not match the
\* payload.
parse_space_packet_checked(packet) ==
    IF \/ Len(packet) < PRIMARY_HEADER_SIZE
       \/ UnpackH(packet[5], packet[6]) # Len(packet) - 1
    THEN [ok |-> FALSE, apid |-> 0, seq |-> 0, payload |-> <<>>]
    ELSE [ok |-> TRUE,
          apid |-> UnpackH(packet[1], packet[2]),
          seq |-> UnpackH(packet[3], packet[4]),
          payload |-> SubSeq(packet, PRIMARY_HEADER_SIZE + 1, Len(packet))]

\* parse_space_packet: ok = FALSE stands for ValueError("Packet too short").
\* The unpacked length field is discarded.
parse_space_packet(packet) ==
    IF Len(packet) < PRIMARY_HEADER_SIZE
    THEN [ok |-> FALSE, apid |-> 0, seq |-> 0, payload |-> <<>>]
    ELSE [ok |-> TRUE,
          apid |-> UnpackH(packet[1], packet[2]),
          seq |-> UnpackH(packet[3], packet[4]),
          payload |-> SubSeq(packet, PRIMARY_HEADER_SIZE + 1, Len(packet))]

\* ------------------------------------------------------------ commands
\* get_command_code that has no code for a name outside the table.
get_command_code_known(command) ==
    CASE command = "reboot" -> 1
      [] command = "steer" -> 2
      [] command = "get_photo" -> 3
      [] command = "get_telemetry" -> 4
      [] OTHER -> 0

get_command_code(command) ==
    CASE command = "reboot" -> 1
      [] command = "steer" -> 2
      [] command = "get_photo" -> 3
      [] command = "get_telemetry" -> 4
      [] OTHER -> UNKNOWN_COMMAND

\* The frame send_command hands to send_packet; now is int(time.time()).
command_packet(command, params, now) ==
    build_space_packet(APID_COMMAND, now % 65536,
                       <<get_command_code(command)>> \o params).bytes

\* ------------------------------------------------------------ telemetry text
COMMA == 44
EQUALS == 61

\* bytes.decode(errors='ignore') on bytes that are ASCII or 0xFF: the bytes
\* that are no valid UTF-8 are left out.
DecodeIgnore(payload) == SelectSeq(payload, LAMBDA b : b < 128)

Contains(s, c) == \E i \in 1..Len(s) : s[i] = c

\* str.split(c): the segments between the occurrences of c; never empty.
RECURSIVE Split(_, _)
Split(s, c) ==
    IF s = <<>> THEN << <<>> >>
    ELSE LET rest == Split(Tail(s), c)
         IN  IF Head(s) = c
             THEN << <<>> >> \o rest
             ELSE << <<Head(s)>> \o Head(rest) >> \o Tail(rest)

\* dict(pairs) for pairs that all have two elements: a later pair replaces
\* an earlier one with the same key.
RECURSIVE DictOf(_)
DictOf(pairs) ==
    IF pairs = <<>> THEN <<>>
    ELSE LET d == DictOf(SubSeq(pairs, 1, Len(pairs) - 1))
             p == pairs[Len(pairs)]
         IN  [k \in (DOMAIN d) \cup {p[1]} |-> IF k = p[1] THEN p[2] ELSE d[k]]

\* TelemetryItems without the filter on '='.
TelemetryItems_all(str) == Split(str, COMMA)

\* The segments request_telemetry keeps: those that contain '='.
TelemetryItems(str) == SelectSeq(Split(str, COMMA), LAMBDA it : Contains(it, EQUALS))

\* item.split('=') for every kept segment.
TelemetryPairs(str) ==
    LET items == TelemetryItems(str)
    IN  [i \in 1..Len(items) |-> Split(items[i], EQUALS)]

\* parse_telemetry that keeps the pairs it could build when one is malformed.
parse_telemetry_partial(payload) ==
    LET pairs == TelemetryPairs(DecodeIgnore(payload))
    IN  [ok |-> TRUE, dict |-> DictOf(SelectSeq(pairs, LAMBDA p : Len(p) = 2))]

\* The try block of request_telemetry: dict() raises ValueError (ok = FALSE)
\* when an element does not have exactly two parts, and None is returned.
parse_telemetry(payload) ==
    LET pairs == TelemetryPairs(DecodeIgnore(payload))
    IN  IF \A i \in 1..Len(pairs) : Len(pairs[i]) = 2
        THEN [ok |-> TRUE, dict |-> DictOf(pairs)]
        ELSE [ok |-> FALSE, dict |-> <<>>]

\* ------------------------------------------------------------ steering
\* "pos_x", "pos_y", "pos_z"
POS_X == <<112, 111, 115, 95, 120>>
POS_Y == <<112, 111, 115, 95, 121>>
POS_Z == <<112, 111, 115, 95, 122>>
RequiredKeys == {POS_X, POS_Y, POS_Z}

\* float(v) succeeds, for a text v of digits and letters: v is not empty and
\* all digits.
IsFloatText(v) == Len(v) > 0 /\ \A i \in 1..Len(v) : v[i] \in 48..57

\* float(v) for a text of digits.
RECURSIVE FloatOf(_)
FloatOf(v) ==
    IF v = <<>> THEN 0
    ELSE 10 * FloatOf(SubSeq(v, 1, Len(v) - 1)) + (v[Len(v)] - 48)

\* struct.pack('>f', delta * 0.1) for a delta of -1.0, 0.0 or 1.0:
\* BDCCCCCD, 00000000, 3DCCCCCD.
PackSteer(delta) ==
    CASE delta = 0 -> <<0, 0, 0, 0>>
      [] delta = 1 -> <<61, 204, 204, 205>>
      [] delta = -1 -> <<189, 204, 204, 205>>

Readable(d, k) == k \in DOMAIN d /\ IsFloatText(d[k])

\* calculate_steering that takes 1.0 for a value it cannot read.
calculate_steering_default(current, target) ==
    LET val(d, k) == IF Readable(d, k) THEN FloatOf(d[k]) ELSE 1
    IN  PackSteer(val(target, POS_X) - val(current, POS_X))
        \o PackSteer(val(target, POS_Y) - val(current, POS_Y))
        \o PackSteer(val(target, POS_Z) - val(current, POS_Z))

\* calculate_steering: KeyError and ValueError are caught and give b''.
calculate_steering(current, target) ==
    IF \A k \in RequiredKeys : Readable(current, k) /\ Readable(target, k)
    THEN PackSteer(FloatOf(target[POS_X]) - FloatOf(current[POS_X]))
         \o PackSteer(FloatOf(target[POS_Y]) - FloatOf(current[POS_Y]))
         \o PackSteer(FloatOf(target[POS_Z]) - FloatOf(current[POS_Z]))
    ELSE <<>>

\* get_packet_stats
get_packet_stats == [packets_sent |-> packets_sent, packets_received |-> packets_received]

\* ------------------------------------------------------------ results
RNone == [kind |-> "none", val |-> <<>>]
RTrue == [kind |-> "true", val |-> <<>>]
RFalse == [kind |-> "false", val |-> <<>>]
RRaise == [kind |-> "raise", val |-> <<>>]
RBytes(b) == [kind |-> "bytes", val |-> b]
RDict(d) == [kind |-> "dict", val |-> d]
RBool(b) == IF b THEN RTrue ELSE RFalse
\* The steer handler of main.py: its status response, its HTTPException(500).
RStatus == [kind |-> "status", val |-> <<>>]
RHttp500 == [kind |-> "http500", val |-> <<>>]

\* receive_packet returns None or non-empty bytes; None is written NoData.
NoData == <<>>

\* ------------------------------------------------------------ inputs
\* Payloads of the photo stream: data bytes with and without the sentinel
\* at the end, the sentinel elsewhere, the empty payload.
PhotoPayloads ==
    {<<>>, <<65>>, <<65, 66>>, <<66, SENTINEL>>, <<SENTINEL, 65>>,
     <<SENTINEL, SENTINEL>>}

RECURSIVE SeqsUpTo(_, _)
SeqsUpTo(S, n) ==
    IF n = 0 THEN {<<>>}
    ELSE LET shorter == SeqsUpTo(S, n - 1)
         IN  shorter \cup {Append(q, b) : q \in {x \in shorter : Len(x) = n - 1}, b \in S}

\* A frame as the remote end builds it.
Frame(payload) == build_space_packet(1, 0, payload).bytes
ShortFrame == <<0, 1, 0>>

PeerSingle == {Frame(q) : q \in PhotoPayloads} \cup {ShortFrame}
PeerShared == {Frame(<<65>>), Frame(<<SENTINEL>>)}

\* Telemetry frames: "a=b", "ab", "a=b=c", "a=b,c=d=e"
PeerTelemetry ==
    {Frame(<<97, EQUALS, 98>>), Frame(<<97, 98>>),
     Frame(<<97, EQUALS, 98, EQUALS, 99>>),
     Frame(<<97, EQUALS, 98, COMMA, 99, EQUALS, 100, EQUALS, 101>>)}

\* Telemetry frames for the steer handler: "pos_x=1,pos_y=2,pos_z=1", the
\* same without pos_z, the same with pos_y=x, and "ab".
SteerText(y, z) ==
    POS_X \o <<EQUALS, 49, COMMA>> \o POS_Y \o <<EQUALS>> \o y \o z
PeerSteer ==
    {Frame(SteerText(<<50>>, <<COMMA>> \o POS_Z \o <<EQUALS, 49>>)),
     Frame(SteerText(<<50>>, <<>>)),
     Frame(SteerText(<<120>>, <<COMMA>> \o POS_Z \o <<EQUALS, 49>>)),
     Frame(<<97, 98>>)}

\* Target telemetry: pos_x, pos_y, pos_z = 2; the same without pos_z; the
\* same with pos_y = "x"; the empty map.
TargetInputs ==
    {[k \in RequiredKeys |-> <<50>>],
     [k \in {POS_X, POS_Y} |-> <<50>>],
     [k \in RequiredKeys |-> IF k = POS_Y THEN <<120>> ELSE <<50>>],
     [k \in {} |-> <<50>>]}

SendInputs == {<<0>>}
CommandInputs == {"reboot", "steer", "get_photo", "get_telemetry", "warp"}
ParamInputs == {<<>>, <<7>>}
NowInputs == {65541}
SignalSamples == {20, 50, 60}
MinSignalInputs == {50}
MaxAttemptsInputs == {0, 1, 2}

\* ------------------------------------------------------------ threads
IdleThread ==
    [pc |-> "idle", op |-> "none", ra |-> "top", attempt |-> 0, pkt |-> <<>>,
     data |-> <<>>, tmp |-> 0, photo_data |-> <<>>, result |-> RNone,
     min_signal |-> 0, max_attempts |-> 0,
     command |-> "", params |-> <<>>, now |-> 0,
     tries |-> 0, fails |-> 0, cnt0 |-> 0, rxlog |-> <<>>,
     rxidx |-> <<>>, handed |-> <<>>, wire |-> <<>>, sret |-> RNone,
     rcalls |-> 0, rnone |-> 0, recv0 |-> 0, sock0 |-> "none", conn0 |-> FALSE,
     samples |-> <<>>, connlog |-> <<>>, sent0 |-> 0,
     target |-> <<>>, tres |-> RNone]

\* The fields of a thread, after its position pc:
\*   op, command, params, now, min_signal, max_attempts: the top-level call
\*     and its arguments (now is the value of int(time.time()));
\*   ra, attempt, pkt, data, tmp, photo_data: the locals of the frames;
\*   result: the value the top-level call returned;
\* and the history of the top-level call:
\*   tries, fails: transmit or receive attempts of the last send_packet or
\*     receive_packet call, and how many of them failed;
\*   cnt0: the counter of that call when it started;
\*   recv0, sent0, sock0, conn0: packets_received, packets_sent, the socket
\*     and connected when the top-level call started;
\*   handed: the frames passed to send_packet; wire: the frames the socket
\*     accepted; sret: what send_packet returned;
\*   rcalls, rnone: receive_packet calls made, and those that returned None;
\*   rxlog, rxidx: the packets receive_packet returned, and their positions
\*     in the stream of inbound packets;
\*   samples: the signal samples taken; connlog: the outcome of each
\*     connect() the call made itself;
\*   target: the target telemetry of a steer request; tres: what its
\*     request_telemetry call returned.

Set(t, l) == thr' = [thr EXCEPT ![t] = l]

\* LockFree for a lock that never makes a caller wait.
LockFree_open == TRUE

LockFree == lock = NoOne

EndsWith(b, c) == Len(b) > 0 /\ b[Len(b)] = c
\* DropLast that keeps the last byte.
DropLast_keep(b) == b

DropLast(b) == SubSeq(b, 1, Len(b) - 1)

\* Start of a send_packet call made by the thread whose locals are l.
EnterSend(l, d) ==
    [l EXCEPT !.pc = "s_lock", !.attempt = 0, !.pkt = d, !.tries = 0,
              !.fails = 0, !.cnt0 = packets_sent, !.handed = Append(@, d)]

\* Start of a receive_packet call.
EnterReceive(l) ==
    [l EXCEPT !.pc = "r_lock", !.attempt = 0, !.data = <<>>, !.tries = 0,
              !.fails = 0, !.cnt0 = packets_received, !.rcalls = @ + 1]

\* Return to the caller of the top-level call with result r: the frame's
\* locals are gone, the history of the call stays.
Finish(l, r) ==
    [l EXCEPT !.pc = "idle", !.ra = "top", !.attempt = 0, !.pkt = <<>>,
              !.data = <<>>, !.tmp = 0, !.photo_data = <<>>, !.result = r]

\* SendDone that goes on to receive whatever send_packet returned.
SendDone_always(l, ok) ==
    LET m == [l EXCEPT !.sret = RBool(ok)]
    IN  CASE l.op \in {"send", "command"} -> Finish(m, RBool(ok))
          [] l.op = "photo" -> EnterReceive([m EXCEPT !.photo_data = <<>>])
          [] l.op = "telemetry" -> EnterReceive(m)

\* What the caller of send_packet does with its result ok.  The steer
\* handler calls send_packet twice: in request_telemetry, whose None it
\* answers with HTTP 500, and in send_command('steer').
SendDone(l, ok) ==
    LET m == [l EXCEPT !.sret = RBool(ok)]
    IN  CASE l.op \in {"send", "command"} -> Finish(m, RBool(ok))
          [] l.op = "photo" ->
                IF ok THEN EnterReceive([m EXCEPT !.photo_data = <<>>])
                ELSE Finish(m, RNone)
          [] l.op = "telemetry" ->
                IF ok THEN EnterReceive(m) ELSE Finish(m, RNone)
          [] l.op = "steer" /\ Len(l.handed) = 1 ->
                IF ok THEN EnterReceive(m)
                ELSE Finish([m EXCEPT !.tres = RNone], RHttp500)
          [] l.op = "steer" /\ Len(l.handed) = 2 ->
                Finish(m, IF ok THEN RStatus ELSE RHttp500)

\* PhotoStep that returns the bytes it has when a frame cannot be parsed.
PhotoStep_collapse(l, d) ==
    IF d = NoData THEN Finish(l, RBytes(l.photo_data))
    ELSE LET f == parse_space_packet(d)
             got == [l EXCEPT !.rxlog = Append(@, d)]
         IN  IF ~f.ok THEN Finish(got, RBytes(l.photo_data))
             ELSE IF EndsWith(f.payload, SENTINEL)
             THEN Finish([got EXCEPT !.photo_data = @ \o DropLast(f.payload)],
                         RBytes(l.photo_data \o DropLast(f.payload)))
             ELSE EnterReceive([got EXCEPT !.photo_data = @ \o f.payload])

\* PhotoStep that gives up the photo when a receive fails.
PhotoStep_none(l, d) ==
    IF d = NoData THEN Finish(l, RNone)
    ELSE LET f == parse_space_packet(d)
             got == [l EXCEPT !.rxlog = Append(@, d)]
         IN  IF ~f.ok THEN Finish(got, RRaise)
             ELSE IF EndsWith(f.payload, SENTINEL)
             THEN Finish([got EXCEPT !.photo_data = @ \o DropLast(f.payload)],
                         RBytes(l.photo_data \o DropLast(f.payload)))
             ELSE EnterReceive([got EXCEPT !.photo_data = @ \o f.payload])

\* PhotoStep that returns what it has after its second frame.
PhotoStep_bounded(l, d) ==
    IF d = NoData THEN Finish(l, RBytes(l.photo_data))
    ELSE LET f == parse_space_packet(d)
             got == [l EXCEPT !.rxlog = Append(@, d)]
         IN  IF ~f.ok THEN Finish(got, RRaise)
             ELSE IF EndsWith(f.payload, SENTINEL)
             THEN Finish([got EXCEPT !.photo_data = @ \o DropLast(f.payload)],
                         RBytes(l.photo_data \o DropLast(f.payload)))
             ELSE IF Len(got.rxlog) >= 2
             THEN Finish([got EXCEPT !.photo_data = @ \o f.payload],
                         RBytes(l.photo_data \o f.payload))
             ELSE EnterReceive([got EXCEPT !.photo_data = @ \o f.payload])

\* One turn of request_photo's loop on the packet d receive_packet returned.
PhotoStep(l, d) ==
    IF d = NoData THEN Finish(l, RBytes(l.photo_data))
    ELSE LET f == parse_space_packet(d)
             got == [l EXCEPT !.rxlog = Append(@, d)]
         IN  IF ~f.ok THEN Finish(got, RRaise)
             ELSE IF EndsWith(f.payload, SENTINEL)
             THEN Finish([got EXCEPT !.photo_data = @ \o DropLast(f.payload)],
                         RBytes(l.photo_data \o DropLast(f.payload)))
             ELSE EnterReceive([got EXCEPT !.photo_data = @ \o f.payload])

\* request_telemetry on the packet d receive_packet returned.
TelemetryStep(l, d) ==
    IF d = NoData THEN Finish(l, RNone)
    ELSE LET f == parse_space_packet(d)
             got == [l EXCEPT !.rxlog = Append(@, d)]
         IN  IF ~f.ok THEN Finish(got, RRaise)
             ELSE LET r == parse_telemetry(f.payload)
                  IN  IF r.ok THEN Finish(got, RDict(r.dict)) ELSE Finish(got, RNone)

\* SteerStep that sends no steer command without parameters.
SteerStep_strict(l, r) ==
    LET m == [l EXCEPT !.tres = r]
    IN  IF r = RRaise THEN Finish(m, RRaise)
        ELSE IF r = RNone \/ DOMAIN r.val = {} THEN Finish(m, RHttp500)
        ELSE LET params == calculate_steering(r.val, l.target)
             IN  IF params = <<>> THEN Finish([m EXCEPT !.params = params], RHttp500)
                 ELSE EnterSend([m EXCEPT !.params = params],
                                command_packet("steer", params, l.now))

\* The steer handler once request_telemetry has returned r: an exception
\* goes on to the caller, None and the empty map give HTTP 500, any other
\* map goes to calculate_steering and its result to send_command('steer').
SteerStep(l, r) ==
    LET m == [l EXCEPT !.tres = r]
    IN  IF r = RRaise THEN Finish(m, RRaise)
        ELSE IF r = RNone \/ DOMAIN r.val = {} THEN Finish(m, RHttp500)
        ELSE LET params == calculate_steering(r.val, l.target)
             IN  EnterSend([m EXCEPT !.params = params],
                           command_packet("steer", params, l.now))

\* request_telemetry inside the steer handler, on the packet d.
SteerTelemetry(l, d) ==
    IF d = NoData THEN SteerStep(l, RNone)
    ELSE LET f == parse_space_packet(d)
             got == [l EXCEPT !.rxlog = Append(@, d)]
         IN  IF ~f.ok THEN SteerStep(got, RRaise)
             ELSE LET r == parse_telemetry(f.payload)
                  IN  SteerStep(got, IF r.ok THEN RDict(r.dict) ELSE RNone)

\* What the caller of receive_packet does with its result d.
ReceiveDone(l, d) ==
    LET m == IF d = NoData THEN [l EXCEPT !.rnone = @ + 1] ELSE l
    IN  CASE l.op = "recv" -> Finish(m, IF d = NoData THEN RNone ELSE RBytes(d))
          [] l.op = "photo" -> PhotoStep(m, d)
          [] l.op = "telemetry" -> TelemetryStep(m, d)
          [] l.op = "steer" -> SteerTelemetry(m, d)

\* Return from connect() to the place that called it; ok tells whether the
\* try block ran to its end.
ConnectDone(l, ok) ==
    CASE l.ra = "s" -> [l EXCEPT !.pc = "s_tx"]
      [] l.ra = "r" -> [l EXCEPT !.pc = "r_rx"]
      [] l.ra = "w" -> [l EXCEPT !.pc = "w_check", !.connlog = Append(@, ok)]
      [] l.ra = "top" -> Finish([l EXCEPT !.connlog = Append(@, ok)], RNone)

\* Return from disconnect() to the place that called it.
DisconnectDone(l) ==
    CASE l.ra = "s" -> [l EXCEPT !.pc = "s_sleep"]
      [] l.ra = "r" -> [l EXCEPT !.pc = "r_sleep"]
      [] l.ra = "top" -> Finish(l, RNone)

\* ------------------------------------------------------------ calls
Shared == <<use_udp, sock, connected, lock, packets_sent, packets_received>>
History == <<okSends, okRecvs>>
Setup == <<peer, fpc, fin, fout>>
Env == <<faults, frames_left>>

CanCall(t) == thr[t].pc = "idle" /\ calls > 0
Called == calls' = calls - 1 /\ UNCHANGED <<Shared, History, Setup, Env>>
Fresh(t, o) == [IdleThread EXCEPT !.op = o]

call_send_packet(t) ==
    /\ CanCall(t)
    /\ \E d \in SendInputs : Set(t, EnterSend(Fresh(t, "send"), d))
    /\ Called

call_receive_packet(t) ==
    /\ CanCall(t)
    /\ Set(t, EnterReceive(Fresh(t, "recv")))
    /\ Called

\* send_command: build the frame and hand it to send_packet.
call_send_command(t) ==
    /\ CanCall(t)
    /\ \E c \in CommandInputs, a \in ParamInputs, now \in NowInputs :
          Set(t, EnterSend([Fresh(t, "command") EXCEPT !.command = c, !.params = a,
                                                        !.now = now],
                           command_packet(c, a, now)))
    /\ Called

\* request_photo: send_command('get_photo') first.
call_request_photo(t) ==
    /\ CanCall(t)
    /\ \E now \in NowInputs :
          Set(t, EnterSend([Fresh(t, "photo") EXCEPT !.recv0 = packets_received,
                                                      !.sent0 = packets_sent],
                           command_packet("get_photo", <<>>, now)))
    /\ Called

\* request_telemetry: send_command('get_telemetry') first.
call_request_telemetry(t) ==
    /\ CanCall(t)
    /\ \E now \in NowInputs :
          Set(t, EnterSend([Fresh(t, "telemetry") EXCEPT !.recv0 = packets_received,
                                                      !.sent0 = packets_sent],
                           command_packet("get_telemetry", <<>>, now)))
    /\ Called

\* The steer handler of main.py: request_telemetry first.
call_steer(t) ==
    /\ CanCall(t)
    /\ \E tg \in TargetInputs, now \in NowInputs :
          Set(t, EnterSend([Fresh(t, "steer") EXCEPT !.target = tg, !.now = now,
                                                      !.recv0 = packets_received,
                                                      !.sent0 = packets_sent],
                           command_packet("get_telemetry", <<>>, now)))
    /\ Called

call_connect(t) ==
    /\ CanCall(t)
    /\ Set(t, [Fresh(t, "connect") EXCEPT !.pc = "c_open", !.ra = "top",
                                          !.sock0 = sock, !.conn0 = connected])
    /\ Called

call_disconnect(t) ==
    /\ CanCall(t)
    /\ Set(t, [Fresh(t, "disconnect") EXCEPT !.pc = "d_close", !.ra = "top",
                                             !.sock0 = sock, !.conn0 = connected])
    /\ Called

\* connect_with_antenna_signal: range(max_attempts) is empty for 0.
call_connect_with_antenna_signal(t) ==
    /\ CanCall(t)
    /\ \E m \in MinSignalInputs, n \in MaxAttemptsInputs :
          LET l == [Fresh(t, "cws") EXCEPT !.min_signal = m, !.max_attempts = n]
          IN  Set(t, IF n = 0 THEN Finish(l, RFalse) ELSE [l EXCEPT !.pc = "w_loop"])
    /\ Called

\* ------------------------------------------------------------ connect
\* socket.socket(...) succeeds: self.sock is the new socket.  A datagram
\* socket is usable at once, a stream socket has yet to connect.
connect_open(t) ==
    /\ thr[t].pc = "c_open"
    /\ sock' = IF use_udp THEN "open" ELSE "fresh"
    /\ Set(t, [thr[t] EXCEPT !.pc = IF use_udp THEN "c_flag" ELSE "c_conn"])
    /\ UNCHANGED <<use_udp, connected, lock, packets_sent, packets_received,
                   calls, History, Setup, Env>>

\* socket.socket(...) raises: self.sock keeps its value.
connect_open_raise(t) ==
    /\ thr[t].pc = "c_open"
    /\ faults > 0
    /\ faults' = faults - 1
    /\ Set(t, [thr[t] EXCEPT !.pc = "c_fail"])
    /\ UNCHANGED <<Shared, calls, History, Setup, frames_left>>

\* self.sock.settimeout(10); self.sock.connect(...) succeeds.
connect_sock(t) ==
    /\ thr[t].pc = "c_conn"
    /\ sock = "fresh"
    /\ sock' = "open"
    /\ Set(t, [thr[t] EXCEPT !.pc = "c_flag"])
    /\ UNCHANGED <<use_udp, connected, lock, packets_sent, packets_received,
                   calls, History, Setup, Env>>

\* self.sock.connect(...) raises: refused or timed out, or self.sock is by
\* now a socket that is closed or already connected.
connect_sock_raise(t) ==
    /\ thr[t].pc = "c_conn"
    /\ sock # "fresh" \/ faults > 0
    /\ faults' = IF sock = "fresh" THEN faults - 1 ELSE faults
    /\ Set(t, [thr[t] EXCEPT !.pc = "c_fail"])
    /\ UNCHANGED <<Shared, calls, History, Setup, frames_left>>

\* self.connected = True
connect_flag(t) ==
    /\ thr[t].pc = "c_flag"
    /\ connected' = TRUE
    /\ Set(t, ConnectDone(thr[t], TRUE))
    /\ UNCHANGED <<use_udp, sock, lock, packets_sent, packets_received,
                   calls, History, Setup, Env>>

\* connect_fail that leaves connected as it was.
connect_fail_keep(t) ==
    /\ thr[t].pc = "c_fail"
    /\ Set(t, ConnectDone(thr[t], FALSE))
    /\ UNCHANGED <<Shared, calls, History, Setup, Env>>

\* except: self.connected = False
connect_fail(t) ==
    /\ thr[t].pc = "c_fail"
    /\ connected' = FALSE
    /\ Set(t, ConnectDone(thr[t], FALSE))
    /\ UNCHANGED <<use_udp, sock, lock, packets_sent, packets_received,
                   calls, History, Setup, Env>>

\* ------------------------------------------------------------ disconnect
\* if self.sock: self.sock.close()
disconnect_close(t) ==
    /\ thr[t].pc = "d_close"
    /\ sock' = IF sock = "none" THEN "none" ELSE "closed"
    /\ Set(t, [thr[t] EXCEPT !.pc = "d_flag"])
    /\ UNCHANGED <<use_udp, connected, lock, packets_sent, packets_received,
                   calls, History, Setup, Env>>

\* disconnect_flag that leaves connected as it was.
disconnect_flag_skip(t) ==
    /\ thr[t].pc = "d_flag"
    /\ Set(t, DisconnectDone(thr[t]))
    /\ UNCHANGED <<Shared, calls, History, Setup, Env>>

\* self.connected = False
disconnect_flag(t) ==
    /\ thr[t].pc = "d_flag"
    /\ connected' = FALSE
    /\ Set(t, DisconnectDone(thr[t]))
    /\ UNCHANGED <<use_udp, sock, lock, packets_sent, packets_received,
                   calls, History, Setup, Env>>

\* ------------------------------------------------------------ send_packet
\* with self.lock: (entry)
send_acquire(t) ==
    /\ thr[t].pc = "s_lock"
    /\ LockFree
    /\ lock' = t
    /\ Set(t, [thr[t] EXCEPT !.pc = "s_check"])
    /\ UNCHANGED <<use_udp, sock, connected, packets_sent, packets_received,
                   calls, History, Setup, Env>>

\* if not self.connected: self.connect()
send_check(t) ==
    /\ thr[t].pc = "s_check"
    /\ Set(t, IF connected THEN [thr[t] EXCEPT !.pc = "s_tx"]
              ELSE [thr[t] EXCEPT !.pc = "c_open", !.ra = "s"])
    /\ UNCHANGED <<Shared, calls, History, Setup, Env>>

\* sendto / sendall succeeds.
send_transmit(t) ==
    /\ thr[t].pc = "s_tx"
    /\ sock = "open"
    /\ Set(t, [thr[t] EXCEPT !.pc = "s_inc", !.tries = @ + 1,
                              !.wire = Append(@, thr[t].pkt)])
    /\ UNCHANGED <<Shared, calls, History, Setup, Env>>

\* send_transmit_raise that counts the failed attempt as a packet sent.
send_transmit_raise_counted(t) ==
    /\ thr[t].pc = "s_tx"
    /\ sock # "open" \/ faults > 0
    /\ faults' = IF sock = "open" THEN faults - 1 ELSE faults
    /\ lock' = NoOne
    /\ packets_sent' = packets_sent + 1
    /\ Set(t, [thr[t] EXCEPT !.pc = "d_close", !.ra = "s", !.tries = @ + 1,
                              !.fails = @ + 1])
    /\ UNCHANGED <<use_udp, sock, connected, packets_received,
                   calls, History, Setup, frames_left>>

\* send_transmit_raise that returns False at once when the last attempt
\* raises.
send_transmit_raise_short(t) ==
    /\ thr[t].pc = "s_tx"
    /\ sock # "open" \/ faults > 0
    /\ faults' = IF sock = "open" THEN faults - 1 ELSE faults
    /\ lock' = NoOne
    /\ Set(t, IF thr[t].attempt + 1 < RETRY_LIMIT
              THEN [thr[t] EXCEPT !.pc = "d_close", !.ra = "s", !.tries = @ + 1,
                                   !.fails = @ + 1]
              ELSE SendDone([thr[t] EXCEPT !.attempt = @ + 1, !.tries = @ + 1,
                                           !.fails = @ + 1], FALSE))
    /\ UNCHANGED <<use_udp, sock, connected, packets_sent, packets_received,
                   calls, History, Setup, frames_left>>

\* send_transmit_raise that keeps the lock through the except handler.
send_transmit_raise_held(t) ==
    /\ thr[t].pc = "s_tx"
    /\ sock # "open" \/ faults > 0
    /\ faults' = IF sock = "open" THEN faults - 1 ELSE faults
    /\ Set(t, [thr[t] EXCEPT !.pc = "d_close", !.ra = "s", !.tries = @ + 1,
                              !.fails = @ + 1])
    /\ UNCHANGED <<Shared, calls, History, Setup, frames_left>>

\* sendto / sendall raises (the network fails, or self.sock is None, closed
\* or not connected); leaving the with block releases the lock.
send_transmit_raise(t) ==
    /\ thr[t].pc = "s_tx"
    /\ sock # "open" \/ faults > 0
    /\ faults' = IF sock = "open" THEN faults - 1 ELSE faults
    /\ lock' = NoOne
    /\ Set(t, [thr[t] EXCEPT !.pc = "d_close", !.ra = "s", !.tries = @ + 1,
                              !.fails = @ + 1])
    /\ UNCHANGED <<use_udp, sock, connected, packets_sent, packets_received,
                   calls, History, Setup, frames_left>>

\* self.packets_sent += 1; leave the with block; return True
send_count(t) ==
    /\ thr[t].pc = "s_inc"
    /\ packets_sent' = packets_sent + 1
    /\ lock' = NoOne
    /\ okSends' = okSends + 1
    /\ Set(t, SendDone(thr[t], TRUE))
    /\ UNCHANGED <<use_udp, sock, connected, packets_received, okRecvs,
                   calls, Setup, Env>>

\* send_sleep that gives the call up after any failed attempt.
send_sleep_early(t) ==
    /\ thr[t].pc = "s_sleep"
    /\ Set(t, SendDone([thr[t] EXCEPT !.attempt = @ + 1], FALSE))
    /\ UNCHANGED <<Shared, calls, History, Setup, Env>>

\* send_sleep with one attempt too many.
send_sleep_late(t) ==
    /\ thr[t].pc = "s_sleep"
    /\ Set(t, IF thr[t].attempt + 1 <= RETRY_LIMIT
              THEN [thr[t] EXCEPT !.pc = "s_lock", !.attempt = @ + 1]
              ELSE SendDone([thr[t] EXCEPT !.attempt = @ + 1], FALSE))
    /\ UNCHANGED <<Shared, calls, History, Setup, Env>>

\* time.sleep(RETRY_DELAY); next attempt, or return False after the last.
send_sleep(t) ==
    /\ thr[t].pc = "s_sleep"
    /\ Set(t, IF thr[t].attempt + 1 < RETRY_LIMIT
              THEN [thr[t] EXCEPT !.pc = "s_lock", !.attempt = @ + 1]
              ELSE SendDone([thr[t] EXCEPT !.attempt = @ + 1], FALSE))
    /\ UNCHANGED <<Shared, calls, History, Setup, Env>>

\* ------------------------------------------------------------ receive_packet
receive_acquire(t) ==
    /\ thr[t].pc = "r_lock"
    /\ LockFree
    /\ lock' = t
    /\ Set(t, [thr[t] EXCEPT !.pc = "r_check"])
    /\ UNCHANGED <<use_udp, sock, connected, packets_sent, packets_received,
                   calls, History, Setup, Env>>

receive_check(t) ==
    /\ thr[t].pc = "r_check"
    /\ Set(t, IF connected THEN [thr[t] EXCEPT !.pc = "r_rx"]
              ELSE [thr[t] EXCEPT !.pc = "c_open", !.ra = "r"])
    /\ UNCHANGED <<Shared, calls, History, Setup, Env>>

\* receive_data that leaves the packet in the socket's queue.
receive_data_peek(t) ==
    /\ thr[t].pc = "r_rx"
    /\ sock = "open"
    /\ frames_left > 0
    /\ lock' = NoOne
    /\ \E d \in peer :
          Set(t, [thr[t] EXCEPT !.pc = "r_inc1", !.data = d, !.tries = @ + 1,
                                !.rxidx = Append(@, MaxFrames - frames_left + 1)])
    /\ UNCHANGED <<use_udp, sock, connected, packets_sent, packets_received,
                   calls, History, Setup, Env>>

\* recvfrom / recv returns a packet; the with block ends; data is true.
receive_data(t) ==
    /\ thr[t].pc = "r_rx"
    /\ sock = "open"
    /\ frames_left > 0
    /\ frames_left' = frames_left - 1
    /\ lock' = NoOne
    /\ \E d \in peer :
          Set(t, [thr[t] EXCEPT !.pc = "r_inc1", !.data = d, !.tries = @ + 1,
                                !.rxidx = Append(@, MaxFrames - frames_left + 1)])
    /\ UNCHANGED <<use_udp, sock, connected, packets_sent, packets_received,
                   calls, History, Setup, faults>>

\* recvfrom / recv returns b'': the with block ends, data is false, no
\* exception: the for loop goes on to the next attempt at once.
receive_empty(t) ==
    /\ thr[t].pc = "r_rx"
    /\ sock = "open"
    /\ faults > 0
    /\ faults' = faults - 1
    /\ lock' = NoOne
    /\ Set(t, IF thr[t].attempt + 1 < RETRY_LIMIT
              THEN [thr[t] EXCEPT !.pc = "r_lock", !.attempt = @ + 1, !.tries = @ + 1,
                                   !.fails = @ + 1]
              ELSE ReceiveDone([thr[t] EXCEPT !.attempt = @ + 1, !.tries = @ + 1,
                                              !.fails = @ + 1], NoData))
    /\ UNCHANGED <<use_udp, sock, connected, packets_sent, packets_received,
                   calls, History, Setup, frames_left>>

\* receive_raise that keeps the lock through the except handler.
receive_raise_held(t) ==
    /\ thr[t].pc = "r_rx"
    /\ \/ sock # "open"
       \/ faults > 0
       \/ ~use_udp /\ frames_left = 0
    /\ faults' = IF sock = "open" /\ faults > 0 THEN faults - 1 ELSE faults
    /\ Set(t, [thr[t] EXCEPT !.pc = "d_close", !.ra = "r", !.tries = @ + 1,
                              !.fails = @ + 1])
    /\ UNCHANGED <<Shared, calls, History, Setup, frames_left>>

\* recvfrom / recv raises: the network fails, the stream socket's timeout
\* expires with nothing left to read, or self.sock is None, closed or not
\* connected.
receive_raise(t) ==
    /\ thr[t].pc = "r_rx"
    /\ \/ sock # "open"
       \/ faults > 0
       \/ ~use_udp /\ frames_left = 0
    /\ faults' = IF sock = "open" /\ faults > 0 THEN faults - 1 ELSE faults
    /\ lock' = NoOne
    /\ Set(t, [thr[t] EXCEPT !.pc = "d_close", !.ra = "r", !.tries = @ + 1,
                              !.fails = @ + 1])
    /\ UNCHANGED <<use_udp, sock, connected, packets_sent, packets_received,
                   calls, History, Setup, frames_left>>

\* self.packets_received += 1, the read of the counter
receive_count_load(t) ==
    /\ thr[t].pc = "r_inc1"
    /\ Set(t, [thr[t] EXCEPT !.pc = "r_inc2", !.tmp = packets_received])
    /\ UNCHANGED <<Shared, calls, History, Setup, Env>>

\* receive_count_store that counts the packet twice.
receive_count_store_twice(t) ==
    /\ thr[t].pc = "r_inc2"
    /\ packets_received' = thr[t].tmp + 2
    /\ okRecvs' = okRecvs + 1
    /\ Set(t, ReceiveDone(thr[t], thr[t].data))
    /\ UNCHANGED <<use_udp, sock, connected, lock, packets_sent, okSends,
                   calls, Setup, Env>>

\* self.packets_received += 1, the write of the counter; return data
receive_count_store(t) ==
    /\ thr[t].pc = "r_inc2"
    /\ packets_received' = thr[t].tmp + 1
    /\ okRecvs' = okRecvs + 1
    /\ Set(t, ReceiveDone(thr[t], thr[t].data))
    /\ UNCHANGED <<use_udp, sock, connected, lock, packets_sent, okSends,
                   calls, Setup, Env>>

\* receive_sleep with one attempt too many.
receive_sleep_late(t) ==
    /\ thr[t].pc = "r_sleep"
    /\ Set(t, IF thr[t].attempt + 1 <= RETRY_LIMIT
              THEN [thr[t] EXCEPT !.pc = "r_lock", !.attempt = @ + 1]
              ELSE ReceiveDone([thr[t] EXCEPT !.attempt = @ + 1], NoData))
    /\ UNCHANGED <<Shared, calls, History, Setup, Env>>

\* time.sleep(RETRY_DELAY); next attempt, or return None after the last.
receive_sleep(t) ==
    /\ thr[t].pc = "r_sleep"
    /\ Set(t, IF thr[t].attempt + 1 < RETRY_LIMIT
              THEN [thr[t] EXCEPT !.pc = "r_lock", !.attempt = @ + 1]
              ELSE ReceiveDone([thr[t] EXCEPT !.attempt = @ + 1], NoData))
    /\ UNCHANGED <<Shared, calls, History, Setup, Env>>

\* ------------------------------------------------------------ connect_with_antenna_signal
\* SignalNext with one iteration too many.
SignalNext_late(l) ==
    IF l.attempt + 1 <= l.max_attempts
    THEN [l EXCEPT !.pc = "w_loop", !.attempt = @ + 1]
    ELSE Finish([l EXCEPT !.attempt = @ + 1], RFalse)

\* The thread's next iteration of the for loop, or return False after the last.
SignalNext(l) ==
    IF l.attempt + 1 < l.max_attempts
    THEN [l EXCEPT !.pc = "w_loop", !.attempt = @ + 1]
    ELSE Finish([l EXCEPT !.attempt = @ + 1], RFalse)

\* signal = self.get_antenna_signal_strength(); if signal >= min_signal: connect()
signal_sample(t) ==
    /\ thr[t].pc = "w_loop"
    /\ \E s \in SignalSamples :
          Set(t, IF s >= thr[t].min_signal
                 THEN [thr[t] EXCEPT !.pc = "c_open", !.ra = "w", !.tries = @ + 1,
                                     !.samples = Append(@, s)]
                 ELSE [thr[t] EXCEPT !.pc = "w_sleep", !.tries = @ + 1,
                                     !.samples = Append(@, s)])
    /\ UNCHANGED <<Shared, calls, History, Setup, Env>>

\* if self.connected: return True
signal_check(t) ==
    /\ thr[t].pc = "w_check"
    /\ Set(t, IF connected THEN Finish(thr[t], RTrue) ELSE SignalNext(thr[t]))
    /\ UNCHANGED <<Shared, calls, History, Setup, Env>>

\* time.sleep(2)
signal_sleep(t) ==
    /\ thr[t].pc = "w_sleep"
    /\ Set(t, SignalNext(thr[t]))
    /\ UNCHANGED <<Shared, calls, History, Setup, Env>>

\* ------------------------------------------------------------ specification
Step(t) ==
    \/ call_send_packet(t) \/ call_receive_packet(t) \/ call_send_command(t)
    \/ call_request_photo(t) \/ call_request_telemetry(t)
    \/ call_connect(t) \/ call_disconnect(t) \/ call_connect_with_antenna_signal(t)
    \/ connect_open(t) \/ connect_open_raise(t) \/ connect_sock(t)
    \/ connect_sock_raise(t) \/ connect_flag(t) \/ connect_fail(t)
    \/ disconnect_close(t) \/ disconnect_flag(t)
    \/ send_acquire(t) \/ send_check(t) \/ send_transmit(t)
    \/ send_transmit_raise(t) \/ send_count(t) \/ send_sleep(t)
    \/ receive_acquire(t) \/ receive_check(t) \/ receive_data(t)
    \/ receive_empty(t) \/ receive_raise(t) \/ receive_count_load(t)
    \/ receive_count_store(t) \/ receive_sleep(t)
    \/ signal_sample(t) \/ signal_check(t) \/ signal_sleep(t)

Next == \E t \in Threads : Step(t)

\* The state after SatelliteComm.__init__, with the callers cs, the remote
\* end's packets pr and the budgets of the run.
InitWith(cs, pr, nc, nf) ==
    /\ use_udp \in BOOLEAN
    /\ sock = "none"
    /\ connected = FALSE
    /\ lock = NoOne
    /\ packets_sent = 0
    /\ packets_received = 0
    /\ thr = [t \in Threads |-> IF t \in cs THEN IdleThread ELSE [IdleThread EXCEPT !.pc = "off"]]
    /\ peer = pr
    /\ calls = nc
    /\ faults = nf
    /\ frames_left = MaxFrames
    /\ okSends = 0
    /\ okRecvs = 0
    /\ fpc = "none"
    /\ fin = <<>>
    /\ fout = <<>>

\* Several callers share the connection.
Init == InitWith(Threads, PeerShared, MaxCalls, MaxFaults)

Spec == Init /\ [][Next]_vars

\* One caller.
InitSingle == InitWith({1}, PeerSingle, MaxCallsSingle, MaxFaultsSingle)

SpecSingle == InitSingle /\ [][Next]_vars

\* One caller, the remote end answering with telemetry frames.
InitTelemetryLink == InitWith({1}, PeerTelemetry, MaxCallsSingle, MaxFaults)

SpecTelemetryLink == InitTelemetryLink /\ [][Next]_vars

\* One caller, the steer handler of main.py among its calls, the remote end
\* answering with position telemetry.
StepSteer(t) == Step(t) \/ call_steer(t)

NextSteer == \E t \in Threads : StepSteer(t)

InitSteer == InitWith({1}, PeerSteer, MaxCallsSingle, MaxFaults)

SpecSteer == InitSteer /\ [][NextSteer]_vars

\* ------------------------------------------------------------ fair runs
\* A step of the code of a call t has made: everything but the calls.
Run(t) ==
    \/ connect_open(t) \/ connect_open_raise(t) \/ connect_sock(t)
    \/ connect_sock_raise(t) \/ connect_flag(t) \/ connect_fail(t)
    \/ disconnect_close(t) \/ disconnect_flag(t)
    \/ send_acquire(t) \/ send_check(t) \/ send_transmit(t)
    \/ send_transmit_raise(t) \/ send_count(t) \/ send_sleep(t)
    \/ receive_acquire(t) \/ receive_check(t) \/ receive_data(t)
    \/ receive_empty(t) \/ receive_raise(t) \/ receive_count_load(t)
    \/ receive_count_store(t) \/ receive_sleep(t)
    \/ signal_sample(t) \/ signal_check(t) \/ signal_sleep(t)

\* The callers use the five operations of the connection itself.
StepLink(t) ==
    \/ call_send_packet(t) \/ call_receive_packet(t)
    \/ call_connect(t) \/ call_disconnect(t) \/ call_connect_with_antenna_signal(t)
    \/ Run(t)

NextLink == \E t \in Threads : StepLink(t)

\* A thread that can take a step of its call takes one (the interpreter
\* schedules every thread, and a socket call returns or raises), and a
\* thread that waits at "with self.lock" while the lock is free again and
\* again is granted it.
LinkFairness ==
    \A t \in Threads :
        /\ WF_vars(Run(t))
        /\ SF_vars(send_acquire(t))
        /\ SF_vars(receive_acquire(t))

SpecLink == Init /\ [][NextLink]_vars /\ LinkFairness

\* One caller whose calls go on while they can.
SpecSingleFair == InitSingle /\ [][Next]_vars /\ \A t \in Threads : WF_vars(Run(t))

\* ------------------------------------------------------------ codec runs
\* build_space_packet and parse_space_packet applied to arguments drawn
\* from bounded sets; the connection is not used.
ApidInputs == {0, 1, 255, 256, 4660, 65535}
SeqInputs == {0, 7, 256, 43981, 65535}
CodecBytes == {0, 65, SENTINEL}

Unused ==
    /\ use_udp = FALSE
    /\ sock = "none"
    /\ connected = FALSE
    /\ lock = NoOne
    /\ packets_sent = 0
    /\ packets_received = 0
    /\ thr = [t \in Threads |-> [IdleThread EXCEPT !.pc = "off"]]
    /\ peer = {}
    /\ calls = 0
    /\ faults = 0
    /\ frames_left = 0
    /\ okSends = 0
    /\ okRecvs = 0

System == <<Shared, thr, peer, calls, Env, History>>

InitCodec ==
    /\ Unused
    /\ fpc = "args"
    /\ fin \in [apid : ApidInputs, seq : SeqInputs, payload : SeqsUpTo(CodecBytes, MaxPayload)]
    /\ fout = [frame |-> <<>>, parsed |-> parse_space_packet(<<>>)]

\* frame = build_space_packet(apid, seq, payload)
codec_build ==
    /\ fpc = "args"
    /\ LET b == build_space_packet(fin.apid, fin.seq, fin.payload)
       IN  /\ fpc' = IF b.ok THEN "built" ELSE "build_raised"
           /\ fout' = [fout EXCEPT !.frame = b.bytes]
    /\ UNCHANGED <<fin, System>>

\* parse_space_packet(frame)
codec_parse ==
    /\ fpc = "built"
    /\ LET r == parse_space_packet(fout.frame)
       IN  /\ fpc' = IF r.ok THEN "parsed" ELSE "parse_raised"
           /\ fout' = [fout EXCEPT !.parsed = r]
    /\ UNCHANGED <<fin, System>>

NextCodec == codec_build \/ codec_parse

SpecCodec == InitCodec /\ [][NextCodec]_vars

\* ------------------------------------------------------------ encoder runs
\* build_space_packet applied to payloads around MAX_PACKET_SIZE and around
\* the largest value the 16-bit length field can take.
Zeros(n) == [i \in 1..n |-> 0]
EncodeLengths == {0, 1, MAX_PACKET_SIZE, MAX_PACKET_SIZE + 1, 65530, 65531, 65532}

InitEncode ==
    /\ Unused
    /\ fpc = "args"
    /\ fin \in [apid : ApidInputs, seq : SeqInputs, payload : {Zeros(n) : n \in EncodeLengths}]
    /\ fout = [frame |-> <<>>, parsed |-> parse_space_packet(<<>>)]

SpecEncode == InitEncode /\ [][NextCodec]_vars

\* ------------------------------------------------------------ decoder runs
\* parse_space_packet applied to byte strings of every length up to MaxRaw,
\* whatever their fifth and sixth byte say about the length.
MaxRaw == 7
RawBytes == {0, 5, SENTINEL}

InitDecode ==
    /\ Unused
    /\ fpc = "raw"
    /\ fin \in [packet : SeqsUpTo(RawBytes, MaxRaw)]
    /\ fout = parse_space_packet(<<>>)

\* parse_space_packet(packet)
decode_raw ==
    /\ fpc = "raw"
    /\ LET r == parse_space_packet(fin.packet)
       IN  /\ fpc' = IF r.ok THEN "decoded" ELSE "decode_raised"
           /\ fout' = r
    /\ UNCHANGED <<fin, System>>

NextDecode == decode_raw

SpecDecode == InitDecode /\ [][NextDecode]_vars

\* ------------------------------------------------------------ telemetry runs
\* The parsing step of request_telemetry applied to payloads drawn from a
\* bounded set.
MaxText == 6
TelemetryBytes == {97, 98, COMMA, EQUALS}

\* "pos_x=1.0,pos_y=2.0,garbage"
ExamplePayload ==
    <<112, 111, 115, 95, 120, 61, 49, 46, 48, 44,
      112, 111, 115, 95, 121, 61, 50, 46, 48, 44,
      103, 97, 114, 98, 97, 103, 101>>

\* "a=1,a=2", with the byte 0xFF in the middle of the first value
RepeatPayload == <<97, 61, 49, SENTINEL, 44, 97, 61, 50>>

TelemetryInputs == SeqsUpTo(TelemetryBytes, MaxText) \cup {ExamplePayload, RepeatPayload}

InitTelemetry ==
    /\ Unused
    /\ fpc = "payload"
    /\ fin \in [payload : TelemetryInputs]
    /\ fout = [ok |-> FALSE, dict |-> <<>>]

\* lines 173-179 of request_telemetry on the payload
telemetry_parse ==
    /\ fpc = "payload"
    /\ fpc' = "returned"
    /\ fout' = parse_telemetry(fin.payload)
    /\ UNCHANGED <<fin, System>>

NextTelemetry == telemetry_parse

SpecTelemetry == InitTelemetry /\ [][NextTelemetry]_vars

\* ============================================================ claims
Returned(t, o) == thr[t].pc = "idle" /\ thr[t].op = o

\* ------------------------------------------------------------ C1
\* C1: a send_packet call that returns False has made exactly 5 transmit
\* attempts, all failed, and left packets_sent alone; a call that returns
\* True has made k attempts, 1 <= k <= 5, of which the first k - 1 failed,
\* and has raised packets_sent by exactly 1.  No call makes more than 5.
C1_SendRetryBound ==
    \A t \in Threads :
        /\ thr[t].op \in {"send", "command"} => thr[t].tries <= 5
        /\ Returned(t, "send") \/ Returned(t, "command") =>
              /\ thr[t].result \in {RTrue, RFalse}
              /\ thr[t].result = RFalse =>
                    /\ thr[t].tries = 5
                    /\ thr[t].fails = 5
                    /\ packets_sent = thr[t].cnt0
              /\ thr[t].result = RTrue =>
                    /\ thr[t].tries \in 1..5
                    /\ thr[t].fails = thr[t].tries - 1
                    /\ packets_sent = thr[t].cnt0 + 1

\* A send_packet call has returned True on its fifth attempt.
C1_Witness ==
    \E t \in Threads :
        /\ Returned(t, "send")
        /\ thr[t].result = RTrue
        /\ thr[t].tries = 5
        /\ thr[t].fails = 4
        /\ packets_sent = thr[t].cnt0 + 1

\* ------------------------------------------------------------ C2
\* C2: every step that closes or replaces the socket or changes connected
\* is taken by the caller that holds the lock.
C2_GuardedByLock ==
    [][\A t \in Threads :
          (thr'[t] # thr[t] /\ (sock' # sock \/ connected' # connected)) => lock = t]_vars

\* ------------------------------------------------------------ C3
\* The part of send_packet and receive_packet inside "with self.lock".
InCritical(t) ==
    \/ thr[t].pc \in {"s_check", "s_tx", "s_inc", "r_check", "r_rx"}
    \/ thr[t].pc \in {"c_open", "c_conn", "c_flag", "c_fail"} /\ thr[t].ra \in {"s", "r"}

\* C3: at most one caller is inside the transmit/receive critical section,
\* and that caller holds the lock.
C3_MutualExclusion ==
    /\ \A t \in Threads : InCritical(t) => lock = t
    /\ \A t1, t2 \in Threads : InCritical(t1) /\ InCritical(t2) => t1 = t2

\* One caller is about to transmit while another waits for the lock.
C3_Witness ==
    \E t1, t2 \in Threads :
        /\ t1 # t2
        /\ thr[t1].pc = "s_tx"
        /\ thr[t2].pc \in {"s_lock", "r_lock"}

\* ------------------------------------------------------------ C4
\* C4: connected = TRUE implies that the socket handle is an open, usable
\* socket.
C4_ConnectedImpliesUsable == connected => sock = "open"

\* ------------------------------------------------------------ C5
PayloadOf(f) == SubSeq(f, 7, Len(f))
HasSentinel(f) == Len(f) > 6 /\ f[Len(f)] = 255

RECURSIVE ConcatPayloads(_)
ConcatPayloads(log) ==
    IF log = <<>> THEN <<>>
    ELSE ConcatPayloads(SubSeq(log, 1, Len(log) - 1)) \o PayloadOf(log[Len(log)])

\* C5: while request_photo loops, no frame received so far ends in 0xFF and
\* photo_data is the concatenation of their payloads in receive order; when
\* it returns after a frame ending in 0xFF, that frame is the last one it
\* received and the first that ends in 0xFF, and the result is the
\* concatenation of all payloads without that one trailing byte.
C5_PhotoReassembly ==
    \A t \in Threads :
        /\ thr[t].op = "photo" /\ thr[t].pc # "idle" =>
              /\ \A i \in 1..Len(thr[t].rxlog) : ~HasSentinel(thr[t].rxlog[i])
              /\ thr[t].photo_data = ConcatPayloads(thr[t].rxlog)
        /\ Returned(t, "photo") /\ (\E i \in 1..Len(thr[t].rxlog) : HasSentinel(thr[t].rxlog[i])) =>
              LET log == thr[t].rxlog
                  all == ConcatPayloads(log)
              IN  /\ \A i \in 1..Len(log) : HasSentinel(log[i]) <=> i = Len(log)
                  /\ thr[t].result.kind = "bytes"
                  /\ Len(thr[t].result.val) = Len(all) - 1
                  /\ thr[t].result.val \o <<255>> = all

\* The payloads AB, A and B+0xFF, received in that order, have given ABAB.
C5_Witness ==
    \E t \in Threads :
        /\ Returned(t, "photo")
        /\ Len(thr[t].rxlog) = 3
        /\ PayloadOf(thr[t].rxlog[1]) = <<65, 66>>
        /\ PayloadOf(thr[t].rxlog[2]) = <<65>>
        /\ PayloadOf(thr[t].rxlog[3]) = <<66, 255>>
        /\ thr[t].result = RBytes(<<65, 66, 65, 66>>)

\* ------------------------------------------------------------ C6
\* C6: with one caller, packets_sent is the number of send_packet calls that
\* have returned True and packets_received the number of receive_packet
\* calls that have returned data, and get_packet_stats reports the two.
C6_StatsCountSuccesses ==
    /\ packets_sent = okSends
    /\ packets_received = okRecvs
    /\ get_packet_stats = [packets_sent |-> okSends, packets_received |-> okRecvs]

\* One send has succeeded and three receives have returned data, some
\* attempts having failed on the way.
C6_Witness ==
    /\ \A t \in Threads : thr[t].pc \in {"idle", "off"}
    /\ okSends = 1
    /\ okRecvs = 3
    /\ faults < MaxFaultsSingle
    /\ get_packet_stats = [packets_sent |-> 1, packets_received |-> 3]

\* ------------------------------------------------------------ C7
\* C7: a receive_packet call makes at most 5 receive attempts; it returns
\* the data of the first attempt that yields any (all earlier attempts
\* failed or were empty) and raises packets_received by exactly 1, or, after
\* 5 attempts without data, returns None and leaves the counter alone; it
\* never raises.
C7_ReceiveRetryBound ==
    \A t \in Threads :
        /\ thr[t].op = "recv" => thr[t].tries <= 5
        /\ Returned(t, "recv") =>
              /\ thr[t].result.kind \in {"bytes", "none"}
              /\ thr[t].result.kind = "bytes" =>
                    /\ thr[t].result.val # <<>>
                    /\ thr[t].result.val \in peer
                    /\ thr[t].tries \in 1..5
                    /\ thr[t].fails = thr[t].tries - 1
                    /\ packets_received = thr[t].cnt0 + 1
              /\ thr[t].result.kind = "none" =>
                    /\ thr[t].tries = 5
                    /\ thr[t].fails = 5
                    /\ packets_received = thr[t].cnt0

\* A receive_packet call has returned None after five attempts.
C7_Witness ==
    \E t \in Threads :
        /\ Returned(t, "recv")
        /\ thr[t].result = RNone
        /\ thr[t].tries = 5

\* ------------------------------------------------------------ C8
\* C8: parsing the frame built from (apid, seq, payload) succeeds and gives
\* back exactly apid, seq and payload; neither step raises.
C8_RoundTrip ==
    /\ fpc \notin {"build_raised", "parse_raised"}
    /\ fpc = "parsed" =>
          /\ fout.parsed.ok
          /\ fout.parsed.apid = fin.apid
          /\ fout.parsed.seq = fin.seq
          /\ fout.parsed.payload = fin.payload

\* The round trip of (4660, 43981, <<65, 255>>) is done.
C8_Witness ==
    /\ fpc = "parsed"
    /\ fin = [apid |-> 4660, seq |-> 43981, payload |-> <<65, 255>>]
    /\ fout.parsed.apid = 4660

\* ------------------------------------------------------------ C9
\* C9: a built frame is 6 header bytes followed by the payload; the header
\* is apid, seq and length as big-endian 16-bit fields in that order, and
\* the length field is len(payload) + 5.
C9_FrameLayout ==
    fpc \in {"built", "parsed"} =>
        LET f == fout.frame
        IN  /\ Len(f) = 6 + Len(fin.payload)
            /\ \A i \in 1..6 : f[i] \in 0..255
            /\ f[1] * 256 + f[2] = fin.apid
            /\ f[3] * 256 + f[4] = fin.seq
            /\ f[5] * 256 + f[6] = Len(fin.payload) + 5
            /\ \A i \in 1..Len(fin.payload) : f[6 + i] = fin.payload[i]

\* The frame of (256, 7, <<0, 65>>) is built: 01 00 00 07 00 07 00 41.
C9_Witness ==
    /\ fpc = "built"
    /\ fin = [apid |-> 256, seq |-> 7, payload |-> <<0, 65>>]
    /\ fout.frame = <<1, 0, 0, 7, 0, 7, 0, 65>>

\* ------------------------------------------------------------ C10
\* The claim's reading of the payload text s, by positions: the segments
\* between commas, each one that holds '=' cut at its first '='.
SegmentStarts(s) == {1} \cup {i + 1 : i \in {j \in 1..Len(s) : s[j] = 44}}
SegmentEnd(s, a) ==
    CHOOSE e \in a..(Len(s) + 1) :
        /\ e = Len(s) + 1 \/ s[e] = 44
        /\ \A j \in a..(e - 1) : s[j] # 44
SegmentAt(s, a) == SubSeq(s, a, SegmentEnd(s, a) - 1)
EqualsIn(g) == {i \in 1..Len(g) : g[i] = 61}
KeptStarts(s) == {a \in SegmentStarts(s) : EqualsIn(SegmentAt(s, a)) # {}}
FirstEquals(g) == CHOOSE e \in EqualsIn(g) : \A j \in EqualsIn(g) : e <= j
KeyAt(s, a) == SubSeq(SegmentAt(s, a), 1, FirstEquals(SegmentAt(s, a)) - 1)
ValueAt(s, a) ==
    SubSeq(SegmentAt(s, a), FirstEquals(SegmentAt(s, a)) + 1, Len(SegmentAt(s, a)))
ClaimedKeys(s) == {KeyAt(s, a) : a \in KeptStarts(s)}
LastStart(s, k) ==
    CHOOSE a \in KeptStarts(s) :
        /\ KeyAt(s, a) = k
        /\ \A b \in KeptStarts(s) : KeyAt(s, b) = k => b <= a
ClaimedValue(s, k) == ValueAt(s, LastStart(s, k))
IsClaimedDict(d, s) ==
    /\ DOMAIN d = ClaimedKeys(s)
    /\ \A k \in ClaimedKeys(s) : d[k] = ClaimedValue(s, k)
TextOf(payload) == SelectSeq(payload, LAMBDA b : b < 128)

\* C10 as claimed: every payload gives the map of its segments cut at the
\* first '=', the value keeping any later '='.
C10_SplitAtFirstEquals ==
    fpc = "returned" => fout.ok /\ IsClaimedDict(fout.dict, TextOf(fin.payload))

\* C10, amended: when no kept segment holds more than one '=', the result is
\* that map (segments without '=' dropped, the last occurrence of a key
\* winning); when some segment holds more than one '=', the result is None.
C10_SplitOrNone ==
    fpc = "returned" =>
        LET s == TextOf(fin.payload)
            many == \E a \in KeptStarts(s) : Cardinality(EqualsIn(SegmentAt(s, a))) > 1
        IN  /\ many => ~fout.ok
            /\ ~many => fout.ok /\ IsClaimedDict(fout.dict, s)

\* "pos_x=1.0,pos_y=2.0,garbage" has given {pos_x: 1.0, pos_y: 2.0}.
C10_Witness ==
    /\ fpc = "returned"
    /\ fin.payload = ExamplePayload
    /\ fout.ok
    /\ DOMAIN fout.dict = {<<112, 111, 115, 95, 120>>, <<112, 111, 115, 95, 121>>}
    /\ fout.dict[<<112, 111, 115, 95, 120>>] = <<49, 46, 48>>
    /\ fout.dict[<<112, 111, 115, 95, 121>>] = <<50, 46, 48>>

\* ------------------------------------------------------------ C11
InConnect(l) == l.pc \in {"c_open", "c_conn", "c_flag", "c_fail"}
QualifyingSamples(l) == {i \in 1..Len(l.samples) : l.samples[i] >= l.min_signal}

\* C11: connect_with_antenna_signal takes at most max_attempts samples; it
\* calls connect() once after every sample >= min_signal and at no other
\* time; it returns True exactly when the connect() after the last sample
\* succeeded, all earlier ones having failed, and False only after
\* max_attempts samples with no successful connect(); when the first sample
\* qualifies and its connect() succeeds, one sample was taken and one
\* connect() made.
C11_SignalGate ==
    \A t \in Threads :
        thr[t].op = "cws" =>
            LET l == thr[t]
                n == Len(l.samples)
                c == Len(l.connlog)
            IN  /\ n <= l.max_attempts
                /\ InConnect(l) => n > 0 /\ l.samples[n] >= l.min_signal
                /\ l.pc = "w_sleep" => l.samples[n] < l.min_signal
                /\ c = Cardinality(QualifyingSamples(l)) - (IF InConnect(l) THEN 1 ELSE 0)
                /\ \A i \in 1..(c - 1) : ~l.connlog[i]
                /\ l.pc \notin {"idle", "w_check"} => \A i \in 1..c : ~l.connlog[i]
                /\ Returned(t, "cws") =>
                      /\ l.result \in {RTrue, RFalse}
                      /\ l.result = RTrue <=> c > 0 /\ l.connlog[c]
                      /\ l.result = RTrue => connected /\ l.samples[n] >= l.min_signal
                      /\ l.result = RFalse => n = l.max_attempts
                      /\ n > 0 /\ l.samples[1] >= l.min_signal /\ l.connlog[1] =>
                            l.result = RTrue /\ n = 1 /\ c = 1

\* The first sample, 0.6 against a threshold of 0.5, was followed by a
\* connect() that succeeded: True after one sample and one connect().
C11_Witness ==
    \E t \in Threads :
        /\ Returned(t, "cws")
        /\ thr[t].min_signal = 50
        /\ thr[t].max_attempts = 2
        /\ thr[t].samples = <<60>>
        /\ thr[t].connlog = <<TRUE>>
        /\ thr[t].result = RTrue

\* ------------------------------------------------------------ C12
\* The command codes as the claim lists them.
ClaimedCode(name) ==
    IF name = "reboot" THEN 1
    ELSE IF name = "steer" THEN 2
    ELSE IF name = "get_photo" THEN 3
    ELSE IF name = "get_telemetry" THEN 4
    ELSE 255

\* C12: send_command passes exactly one frame to send_packet: apid 0x100,
\* sequence = now mod 2^16, payload = the code byte of the name (0xFF for a
\* name outside the table) followed by params; nothing else reaches the
\* socket, the frame reaches it also for an unknown name, and send_command
\* returns what send_packet returned.
C12_CommandFrame ==
    \A t \in Threads :
        thr[t].op = "command" =>
            LET l == thr[t]
                f == l.handed[1]
            IN  /\ Len(l.handed) = 1
                /\ Len(f) = 7 + Len(l.params)
                /\ f[1] * 256 + f[2] = 256
                /\ f[3] * 256 + f[4] = l.now % 65536
                /\ f[7] = ClaimedCode(l.command)
                /\ \A i \in 1..Len(l.params) : f[7 + i] = l.params[i]
                /\ l.wire \in {<<>>, <<f>>}
                /\ Returned(t, "command") =>
                      /\ l.sret \in {RTrue, RFalse}
                      /\ l.result = l.sret
                      /\ l.result = RTrue <=> l.wire = <<f>>

\* The unknown command "warp" with the parameter byte 07 at time 65541 went
\* out as 01 00 00 05 00 07 FF 07 and send_command returned True.
C12_Witness ==
    \E t \in Threads :
        /\ Returned(t, "command")
        /\ thr[t].command = "warp"
        /\ thr[t].params = <<7>>
        /\ thr[t].now = 65541
        /\ thr[t].wire = << <<1, 0, 0, 5, 0, 7, 255, 7>> >>
        /\ thr[t].result = RTrue

\* ------------------------------------------------------------ C13
\* C13: connect() returns without raising; when the socket was opened (and,
\* in stream mode, connected) it leaves connected = TRUE with that socket
\* open, and when any of that failed it leaves connected = FALSE, whatever
\* connected was before the call.
C13_ConnectNeverRaises ==
    \A t \in Threads :
        thr[t].op = "connect" =>
            /\ thr[t].result = RNone
            /\ Returned(t, "connect") =>
                  /\ Len(thr[t].connlog) = 1
                  /\ connected <=> thr[t].connlog[1]
                  /\ thr[t].connlog[1] => sock = "open"

\* connect() was called on a connected connection and failed: connected is
\* FALSE.
C13_Witness ==
    \E t \in Threads :
        /\ Returned(t, "connect")
        /\ thr[t].conn0
        /\ thr[t].sock0 = "open"
        /\ thr[t].connlog = <<FALSE>>
        /\ ~connected

\* ------------------------------------------------------------ C14
\* C14: disconnect() returns without raising and leaves connected = FALSE
\* and no open socket behind self.sock (the socket closed, or none when
\* there never was one), whether the connection was never connected,
\* connected or already disconnected; called on the state a disconnect()
\* leaves, it leaves that state as it is.
C14_DisconnectIdempotent ==
    \A t \in Threads :
        thr[t].op = "disconnect" =>
            /\ thr[t].result = RNone
            /\ Returned(t, "disconnect") =>
                  /\ ~connected
                  /\ sock = IF thr[t].sock0 = "none" THEN "none" ELSE "closed"
                  /\ thr[t].sock0 \in {"none", "closed"} /\ ~thr[t].conn0 =>
                        sock = thr[t].sock0 /\ connected = thr[t].conn0

\* disconnect() was called on a connection already disconnected, its socket
\* closed, and left it so.
C14_Witness ==
    \E t \in Threads :
        /\ Returned(t, "disconnect")
        /\ thr[t].sock0 = "closed"
        /\ ~thr[t].conn0
        /\ sock = "closed"
        /\ ~connected

\* ------------------------------------------------------------ C15
\* C15: parse_space_packet raises exactly when the packet has fewer than 6
\* bytes; for 6 bytes or more it returns as payload all the bytes after the
\* sixth, whatever the length field says.
C15_DecodeLength ==
    fpc \in {"decoded", "decode_raised"} =>
        LET n == Len(fin.packet)
        IN  /\ fpc = "decode_raised" <=> n < 6
            /\ fout.ok <=> fpc = "decoded"
            /\ fpc = "decoded" =>
                  /\ Len(fout.payload) = n - 6
                  /\ \A i \in 1..(n - 6) : fout.payload[i] = fin.packet[6 + i]

\* A packet of 7 bytes whose length field says 65535 was parsed: the payload
\* is its one last byte.
C15_Witness ==
    /\ fpc = "decoded"
    /\ fin.packet = <<0, 0, 0, 0, 255, 255, 5>>
    /\ fout.payload = <<5>>

\* ------------------------------------------------------------ C16
\* C16: when a receive_packet call in request_photo's loop returns None, the
\* loop ends with that call and request_photo returns, as bytes, the
\* concatenation of the payloads received before (empty when there were
\* none): neither None nor an exception.
C16_PhotoPartial ==
    \A t \in Threads :
        thr[t].op = "photo" /\ thr[t].rnone > 0 =>
            /\ Returned(t, "photo")
            /\ thr[t].rnone = 1
            /\ thr[t].rcalls = Len(thr[t].rxlog) + 1
            /\ \A i \in 1..Len(thr[t].rxlog) : ~HasSentinel(thr[t].rxlog[i])
            /\ thr[t].result.kind = "bytes"
            /\ thr[t].result.val = ConcatPayloads(thr[t].rxlog)

\* The payloads AB and A were received, the third receive_packet call
\* returned None: request_photo returned ABA.
C16_Witness ==
    \E t \in Threads :
        /\ Returned(t, "photo")
        /\ thr[t].rnone = 1
        /\ Len(thr[t].rxlog) = 2
        /\ PayloadOf(thr[t].rxlog[1]) = <<65, 66>>
        /\ PayloadOf(thr[t].rxlog[2]) = <<65>>
        /\ thr[t].result = RBytes(<<65, 66, 65>>)

\* ------------------------------------------------------------ C17
\* C17: request_photo and request_telemetry make no receive_packet call
\* before send_packet has returned True, and packets_received stays as it
\* was; when send_packet returns False they return None at once; after a
\* send that returned True request_telemetry makes exactly one
\* receive_packet call.
C17_NoReceiveAfterFailedSend ==
    \A t \in Threads :
        thr[t].op \in {"photo", "telemetry"} =>
            /\ thr[t].sret # RTrue =>
                  thr[t].rcalls = 0 /\ packets_received = thr[t].recv0
            /\ thr[t].sret = RFalse =>
                  thr[t].pc = "idle" /\ thr[t].result = RNone
            /\ thr[t].op = "telemetry" /\ thr[t].sret = RTrue => thr[t].rcalls = 1

\* The get_photo command could not be sent in five attempts: request_photo
\* returned None without a receive.
C17_Witness ==
    \E t \in Threads :
        /\ Returned(t, "photo")
        /\ thr[t].sret = RFalse
        /\ thr[t].fails = 5
        /\ thr[t].rcalls = 0
        /\ thr[t].result = RNone
        /\ packets_received = thr[t].recv0

\* ------------------------------------------------------------ C18
\* The payload texts on which line 175 raises: some kept segment holds more
\* than one '='.
ParseRaises(s) ==
    \E a \in KeptStarts(s) : Cardinality(EqualsIn(SegmentAt(s, a))) > 1

\* C18: request_telemetry on a received frame of 6 bytes or more returns
\* None when parsing its payload raises, and otherwise the map of all its
\* key=value segments: never a part of the map, never the exception.
C18_ParseFailureGivesNone ==
    \A t \in Threads :
        (Returned(t, "telemetry") /\ Len(thr[t].rxlog) = 1 /\ Len(thr[t].rxlog[1]) >= 6) =>
            LET s == TextOf(PayloadOf(thr[t].rxlog[1]))
            IN  /\ thr[t].result.kind \in {"none", "dict"}
                /\ ParseRaises(s) => thr[t].result = RNone
                /\ ~ParseRaises(s) =>
                      /\ thr[t].result.kind = "dict"
                      /\ IsClaimedDict(thr[t].result.val, s)

\* "a=b,c=d=e" was received: request_telemetry returned None, not {a: b}.
C18_Witness ==
    \E t \in Threads :
        /\ Returned(t, "telemetry")
        /\ thr[t].sret = RTrue
        /\ thr[t].rxlog = << Frame(<<97, 61, 98, 44, 99, 61, 100, 61, 101>>) >>
        /\ thr[t].result = RNone

\* ------------------------------------------------------------ C19
Sleeping(t) == thr[t].pc \in {"s_sleep", "r_sleep", "w_sleep"}

\* Between two receive_packet calls of request_photo's loop, or between two
\* attempts of one of them.
BetweenFrames(t) ==
    thr[t].op = "photo" /\ thr[t].pc \in {"r_inc1", "r_inc2", "r_lock"}

\* C19: a caller in a backoff sleep does not hold the lock; the holder of
\* the lock is inside one transmit or receive attempt; request_photo does
\* not hold the lock between two frames.
C19_NoLockWhileSleeping ==
    \A t \in Threads :
        /\ Sleeping(t) => lock # t
        /\ lock = t => InCritical(t)
        /\ BetweenFrames(t) => lock # t

\* One caller sleeps after a failed attempt while the other holds the lock
\* and is about to transmit.
C19_Witness ==
    \E t1, t2 \in Threads :
        /\ t1 # t2
        /\ thr[t1].pc \in {"s_sleep", "r_sleep"}
        /\ lock = t2
        /\ thr[t2].pc = "s_tx"

\* ------------------------------------------------------------ C20
Indices(t) == {thr[t].rxidx[i] : i \in 1..Len(thr[t].rxidx)}

\* C20: every inbound packet goes to one receive_packet call: the packets
\* two callers have received are different packets of the stream, a caller
\* receives them in stream order, and request_photo builds its result from
\* the packets its own calls received and no others.
C20_FramesNotShared ==
    /\ \A t1, t2 \in Threads : t1 # t2 => Indices(t1) \cap Indices(t2) = {}
    /\ \A t \in Threads :
          /\ \A i, j \in 1..Len(thr[t].rxidx) : i < j => thr[t].rxidx[i] < thr[t].rxidx[j]
          /\ Indices(t) \subseteq 1..(MaxFrames - frames_left)
          /\ thr[t].op = "photo" =>
                /\ Len(thr[t].rxlog) \in {Len(thr[t].rxidx), Len(thr[t].rxidx) - 1}
                /\ thr[t].pc # "idle" => thr[t].photo_data = ConcatPayloads(thr[t].rxlog)
                /\ Returned(t, "photo") /\ thr[t].result.kind = "bytes" =>
                      \/ thr[t].result.val = ConcatPayloads(thr[t].rxlog)
                      \/ thr[t].result.val \o <<SENTINEL>> = ConcatPayloads(thr[t].rxlog)

\* request_photo received the first and the third packet of the stream; a
\* request_telemetry of the other caller, started after the first packet
\* was in, sent its command and received the second packet, A, which is not
\* in the photo.
C20_Witness ==
    \E t1, t2 \in Threads :
        /\ Returned(t1, "photo")
        /\ thr[t1].rxidx = <<1, 3>>
        /\ thr[t1].rxlog = <<Frame(<<65>>), Frame(<<SENTINEL>>)>>
        /\ thr[t1].result = RBytes(<<65>>)
        /\ Returned(t2, "telemetry")
        /\ thr[t2].recv0 = 1
        /\ thr[t2].sret = RTrue
        /\ thr[t2].rxidx = <<2>>
        /\ thr[t2].rxlog = <<Frame(<<65>>)>>
        /\ thr[t2].result.kind = "dict"

\* ------------------------------------------------------------ C22
\* C22 as claimed: build_space_packet succeeds for a payload of every
\* length, and the length field of the frame holds len(payload) + 5.
C22_EncodeAnyLength ==
    /\ fpc # "build_raised"
    /\ fpc \in {"built", "parsed"} =>
          fout.frame[5] * 256 + fout.frame[6] = Len(fin.payload) + 5

\* C22, amended: build_space_packet checks the payload length against no
\* bound of its own, MAX_PACKET_SIZE included: it succeeds for every payload
\* of up to 65530 bytes, with len(payload) + 5 in the 16-bit length field
\* and the whole payload after the header; for a longer payload the field
\* cannot hold the length and it raises.
C22_EncodeUpTo65530 ==
    /\ fpc = "build_raised" => Len(fin.payload) > 65530
    /\ fpc \in {"built", "parsed"} =>
          /\ Len(fin.payload) <= 65530
          /\ Len(fout.frame) = Len(fin.payload) + 6
          /\ fout.frame[5] \in 0..255 /\ fout.frame[6] \in 0..255
          /\ fout.frame[5] * 256 + fout.frame[6] = Len(fin.payload) + 5
    /\ fpc = "parsed" => fout.parsed.payload = fin.payload

\* A payload of 1025 bytes, one more than MAX_PACKET_SIZE, was encoded:
\* length field 04 06.
C22_Witness ==
    /\ fpc = "built"
    /\ Len(fin.payload) = 1025
    /\ Len(fout.frame) = 1031
    /\ fout.frame[5] = 4
    /\ fout.frame[6] = 6

\* ------------------------------------------------------------ C23
\* C23: a receive attempt that ends without data, by an exception or by
\* empty data, is followed by the backoff step: disconnect() next.
C23_EmptyBacksOff ==
    [][\A t \in Threads :
          (thr[t].pc = "r_rx" /\ thr'[t].fails = thr[t].fails + 1) =>
              thr'[t].pc = "d_close"]_vars

\* ------------------------------------------------------------ C24
Quiet == \A t \in Threads : thr[t].pc \in {"idle", "off"}

\* C24: with several callers, once every call has returned packets_sent is
\* the number of send_packet calls that returned True and packets_received
\* the number of receive_packet calls that returned data.
C24_NoLostIncrement ==
    Quiet => packets_sent = okSends /\ packets_received = okRecvs

\* ------------------------------------------------------------ C25
\* C25: with one caller, from the moment its command is sent request_photo
\* has raised packets_sent by exactly 1, and packets_received by exactly
\* the number of frames it has consumed.
C25_PhotoCounts ==
    \A t \in Threads :
        thr[t].op = "photo" /\ thr[t].sret = RTrue =>
            /\ packets_sent = thr[t].sent0 + 1
            /\ thr[t].pc \notin {"r_inc1", "r_inc2"} =>
                  /\ Len(thr[t].rxlog) = Len(thr[t].rxidx)
                  /\ packets_received = thr[t].recv0 + Len(thr[t].rxlog)

\* After an earlier send, a photo of three frames has been received, two
\* data frames and the one that ends in 0xFF: sent went from 1 to 2,
\* received from 0 to 3.
C25_Witness ==
    \E t \in Threads :
        /\ Returned(t, "photo")
        /\ Len(thr[t].rxlog) = 3
        /\ HasSentinel(thr[t].rxlog[3])
        /\ thr[t].sent0 = 1
        /\ packets_sent = 2
        /\ thr[t].recv0 = 0
        /\ packets_received = 3

\* ------------------------------------------------------------ C28
LastShort(l) ==
    Len(l.rxlog) > 0 /\ Len(l.rxlog[Len(l.rxlog)]) < 6

\* C28: request_photo and request_telemetry end with the ValueError of
\* parse_space_packet exactly when the frame last received has fewer than 6
\* bytes: the result is then neither None nor the bytes of the earlier
\* frames.
C28_ShortFramePropagates ==
    \A t \in Threads :
        (thr[t].op \in {"photo", "telemetry"} /\ thr[t].pc = "idle") =>
            (thr[t].result = RRaise <=> LastShort(thr[t]))

\* The payload AB was received, then a frame of 3 bytes: request_photo
\* raised, and AB is not returned.
C28_Witness ==
    \E t \in Threads :
        /\ Returned(t, "photo")
        /\ Len(thr[t].rxlog) = 2
        /\ PayloadOf(thr[t].rxlog[1]) = <<65, 66>>
        /\ thr[t].rxlog[2] = ShortFrame
        /\ thr[t].result = RRaise

\* ------------------------------------------------------------ C29
\* C29: no connect() takes a socket that is not closed out of self.sock, so
\* at most one socket of the connection is open.
C29_OneSocket ==
    [][\A t \in Threads :
          (thr[t].pc = "c_open" /\ thr'[t].pc \in {"c_flag", "c_conn"}) =>
              sock \in {"none", "closed"}]_vars

\* ------------------------------------------------------------ C26
\* A required key is absent from the map d, or its value is no number.
Defective(d) ==
    \E k \in RequiredKeys :
        k \notin DOMAIN d \/ d[k] = <<>> \/ \E i \in 1..Len(d[k]) : d[k][i] \notin 48..57

SteerSent(l) ==
    /\ Len(l.handed) = 2
    /\ PayloadOf(l.handed[2]) = <<2>>

InTransport(t) == thr[t].op \in {"send", "recv"} /\ thr[t].pc # "idle"

\* C21: every send_packet and receive_packet call returns; it has then
\* either succeeded within 5 attempts or made all 5 and failed, and until
\* it returns every step of the caller stays inside the call.
C21_RunsToCompletion ==
    /\ \A t \in Threads : InTransport(t) ~> thr[t].pc = "idle"
    /\ [](\A t \in Threads :
            /\ thr[t].op \in {"send", "recv"} => thr[t].tries <= RETRY_LIMIT
            /\ Returned(t, "send") =>
                  \/ thr[t].result = RTrue /\ thr[t].tries \in 1..RETRY_LIMIT
                  \/ thr[t].result = RFalse /\ thr[t].tries = RETRY_LIMIT
            /\ Returned(t, "recv") =>
                  \/ thr[t].result.kind = "bytes" /\ thr[t].tries \in 1..RETRY_LIMIT
                  \/ thr[t].result = RNone /\ thr[t].tries = RETRY_LIMIT)
    /\ [][\A t \in Threads :
            InTransport(t) =>
                /\ thr'[t].op = thr[t].op
                /\ thr'[t].tries >= thr[t].tries
                /\ thr'[t].pc = "idle" => thr'[t].tries >= 1]_vars

\* One caller's send_packet has returned True on its second attempt while
\* the other caller's receive_packet has returned a packet.
C21_Witness ==
    \E t, u \in Threads :
        /\ Returned(t, "send") /\ thr[t].result = RTrue
        /\ thr[t].tries = 2 /\ thr[t].fails = 1
        /\ Returned(u, "recv") /\ thr[u].result.kind = "bytes"

\* ------------------------------------------------------------ C30
\* A caller waits at "with self.lock".
AtLock(t) == thr[t].pc \in {"s_lock", "r_lock"}

\* A caller is inside one of its calls.
InCall(t) == thr[t].pc \notin {"idle", "off"}

InPhotoLoop(t) ==
    thr[t].op = "photo" /\ thr[t].sret = RTrue /\ thr[t].pc # "idle"

\* The datagram socket has no timeout: recvfrom does not return while
\* nothing arrives.
Blocked(t) ==
    /\ thr[t].pc = "r_rx" /\ use_udp /\ sock = "open"
    /\ frames_left = 0 /\ faults = 0

LastSentinel(l) ==
    Len(l.rxlog) > 0 /\ HasSentinel(l.rxlog[Len(l.rxlog)])

\* C27 as claimed: a request_photo call that has sent its command ends
\* only on a frame whose payload ends in FF or on a receive_packet call
\* that ran out of attempts.
C27_TwoExits ==
    \A t \in Threads :
        (Returned(t, "photo") /\ thr[t].sret = RTrue) =>
            LastSentinel(thr[t]) \/ thr[t].rnone = 1

\* C27, amended: a request_photo call that has sent its command ends in one
\* of three ways: a frame whose payload ends in FF, a receive_packet call
\* that ran out of its 5 attempts, or a frame shorter than 6 bytes, whose
\* ValueError leaves the call.  Any other frame sends it into the next
\* receive_packet call, however many frames it has consumed, and the call
\* ends unless recvfrom waits for a packet that never comes.
C27_ThreeExits ==
    /\ [](\A t \in Threads :
            (Returned(t, "photo") /\ thr[t].sret = RTrue) =>
                \/ /\ thr[t].result.kind = "bytes"
                   /\ LastSentinel(thr[t]) /\ thr[t].rnone = 0
                \/ /\ thr[t].result.kind = "bytes"
                   /\ thr[t].rnone = 1 /\ thr[t].tries = RETRY_LIMIT
                   /\ ~LastSentinel(thr[t]) /\ ~LastShort(thr[t])
                \/ /\ thr[t].result = RRaise
                   /\ LastShort(thr[t]) /\ thr[t].rnone = 0)
    /\ [][\A t \in Threads :
            (/\ thr[t].op = "photo" /\ thr[t].pc = "r_inc2" /\ thr'[t] # thr[t]
             /\ Len(thr[t].data) >= PRIMARY_HEADER_SIZE
             /\ ~HasSentinel(thr[t].data)) =>
                /\ thr'[t].pc = "r_lock"
                /\ thr'[t].rcalls = thr[t].rcalls + 1
                /\ thr'[t].rxlog = Append(thr[t].rxlog, thr[t].data)]_vars
    /\ \A t \in Threads : InPhotoLoop(t) ~> (thr[t].pc = "idle" \/ Blocked(t))

\* request_photo consumed every frame of the stream, none ending in FF or
\* short, and returned their payloads when its next receive_packet call
\* had failed 5 times.
C27_Witness ==
    \E t \in Threads :
        /\ Returned(t, "photo")
        /\ thr[t].sret = RTrue
        /\ Len(thr[t].rxlog) = MaxFrames
        /\ ~LastSentinel(thr[t])
        /\ thr[t].rnone = 1
        /\ thr[t].tries = RETRY_LIMIT
        /\ thr[t].result = RBytes(ConcatPayloads(thr[t].rxlog))

\* ------------------------------------------------------------ C31
\* The except handler of a send_packet or receive_packet attempt.
InHandler(t) ==
    thr[t].pc \in {"d_close", "d_flag"} /\ thr[t].ra \in {"s", "r"}

\* No open socket behind self.sock: it is closed, or none was ever made.
SockDown == sock \in {"none", "closed"}

\* C31: with one caller, every attempt of send_packet that fails and every
\* attempt of receive_packet that raises, the fifth included, goes to
\* disconnect(), which closes the socket and clears connected, and then to
\* one sleep, after which the call takes its next attempt or, after the
\* fifth, returns; a call sleeps at most 5 times; and a send_packet that
\* returned False, and a receive_packet that returned None from the sleep
\* of its last attempt, leave connected = FALSE and no open socket.
C31_FailureBacksOff ==
    /\ [](\A t \in Threads :
            /\ Sleeping(t) /\ thr[t].op \in {"send", "recv"} =>
                  /\ thr[t].attempt \in 0..(RETRY_LIMIT - 1)
                  /\ thr[t].fails >= 1
                  /\ ~connected /\ SockDown /\ lock # t
            /\ (Returned(t, "send") /\ thr[t].result = RFalse) =>
                  ~connected /\ SockDown)
    /\ [][\A t \in Threads :
            (thr[t].op \in {"send", "recv"} /\ thr'[t] # thr[t]) =>
                /\ (thr[t].pc = "s_tx" /\ thr'[t].fails = thr[t].fails + 1) =>
                      thr'[t].pc = "d_close" /\ thr'[t].ra = "s"
                /\ (thr[t].pc = "r_rx" /\ thr'[t].pc = "d_close") =>
                      thr'[t].ra = "r" /\ thr'[t].fails = thr[t].fails + 1
                /\ (InHandler(t) /\ thr[t].pc = "d_close") =>
                      thr'[t].pc = "d_flag" /\ SockDown'
                /\ (InHandler(t) /\ thr[t].pc = "d_flag") =>
                      /\ thr'[t].pc = IF thr[t].ra = "s" THEN "s_sleep" ELSE "r_sleep"
                      /\ ~connected'
                /\ (Sleeping(t) /\ thr[t].attempt + 1 < RETRY_LIMIT) =>
                      /\ thr'[t].pc = IF thr[t].pc = "s_sleep" THEN "s_lock" ELSE "r_lock"
                      /\ thr'[t].attempt = thr[t].attempt + 1
                /\ (Sleeping(t) /\ thr[t].attempt + 1 = RETRY_LIMIT) =>
                      /\ thr'[t].pc = "idle"
                      /\ thr'[t].result = IF thr[t].op = "send" THEN RFalse ELSE RNone
                      /\ thr'[t].tries = RETRY_LIMIT
                      /\ ~connected' /\ SockDown']_vars

\* A send_packet call on the stream connection sleeps after its fifth
\* failed attempt, the socket closed and connected cleared.
C31_Witness ==
    \E t \in Threads :
        /\ thr[t].op = "send"
        /\ thr[t].pc = "s_sleep"
        /\ thr[t].attempt = RETRY_LIMIT - 1
        /\ thr[t].fails = RETRY_LIMIT
        /\ ~use_udp
        /\ sock = "closed"
        /\ ~connected

====
